---- MODULE Spec2Model ----
(***************************************************************************)
(* Model of the portfolio series reconstruction of support-bot:            *)
(* PortfolioAnalyzer (src/portfolio.py) as driven by the /portfolio-chart  *)
(* handler (src/main.py).  One request is followed from the candle fetch   *)
(* through the paginated trade fetch, the sort and the merge loop to the   *)
(* HTTP response.  A second part follows one call of the support bot:      *)
(* BotFacade (src/helper.py) with QueryClassifier (src/query_classifier.py)*)
(* and CSProAPIClient.analyze_transactions (src/api_client_v2.py).         *)
(***************************************************************************)
EXTENDS Integers, Sequences, FiniteSets, TLC

\* ------------------------------------------------------------------ bounds
\* Significand width of the floating-point format (53 for a Python float).
MantBits == 4
\* Most candles the candle endpoint returns for one request.
MaxCandles == 2
\* Most orders the closed-orders endpoint holds for one request.
MaxTrades == 3
\* created_at is finer than a millisecond: ticks per millisecond (1000 for
\* the microseconds of a datetime).
TicksPerMs == 2
\* The configured maximum page count the design asks for (spec 4.2).
PageLimit == 2
\* Most deposits, and most withdrawals, in one wallet-transactions answer.
MaxEntries == 2

\* ------------------------------------------------- floating point numbers
\* A float is an integer number of quanta that fits MantBits significant
\* bits; every arithmetic result is rounded to nearest, ties to even.
RECURSIVE Pow2(_)
Pow2(n) == IF n = 0 THEN 1 ELSE 2 * Pow2(n - 1)

Abs(x) == IF x < 0 THEN -x ELSE x

RECURSIVE Ulp(_)
Ulp(a) == IF a < Pow2(MantBits) THEN 1 ELSE 2 * Ulp(a \div 2)

RoundF(x) ==
    LET a == Abs(x)
        u == Ulp(a)
        q == a \div u
        r == a % u
        m == IF 2 * r < u THEN q
             ELSE IF 2 * r > u THEN q + 1
             ELSE IF q % 2 = 0 THEN q ELSE q + 1
    IN  IF x < 0 THEN -(m * u) ELSE m * u

FAdd(x, y) == RoundF(x + y)
FSub(x, y) == RoundF(x - y)
FMul(x, y) == RoundF(x * y)

\* ------------------------------------------------------------ JSON values
\* A JSON field is a number (or numeric string), a string that is no
\* number, or absent from the object.
Num(n) == <<"num", n>>
BadNum == <<"bad">>
Absent == <<"absent">>
IsNum(v) == v[1] = "num"
\* float(v) for a field that parses.
FloatOf(v) == RoundF(v[2])

Big == Pow2(MantBits)

\* candle objects the candle endpoint may send: close_time in epoch ms, c the
\* close price.
Candle(ct, price) == [close_time |-> ct, c |-> price]

Candles == { Candle(1, Num(2)), Candle(3, Num(3)), Candle(3, BadNum) }

\* created_at is ms milliseconds and sub ticks after the epoch.
Order(ms, sub, type, qty, avg, inr, quote) ==
    [created_at |-> ms * TicksPerMs + sub, trade_type |-> type,
     executed_quantity |-> qty, average_execution_price |-> avg,
     inr_amount |-> inr, quote_amount |-> quote]

\* The orders the closed-orders endpoint may send.
Orders ==
    { Order(1, 0, "sell", Num(2), Num(1), Absent, Num(3)),
      Order(1, 1, "transfer", Num(1), Num(1), Num(7), Absent),
      Order(2, 0, "buy", Num(1), Num(1), Num(Big), Absent),
      Order(2, 1, "buy", Num(1), Num(1), Num(1), Num(5)),
      Order(3, 0, "sell", BadNum, Num(1), Num(2), Absent),
      Order(4, 0, "buy", Num(3), Num(1), Absent, Absent) }

\* The data of the design's end-to-end scenarios: the two candles (and one
\* whose close price is no number), the early buy and the mid-window sell.
ScenarioCandles ==
    { Candle(1000, Num(10)), Candle(2000, Num(12)), Candle(2000, BadNum) }

ScenarioBuy == Order(500, 0, "buy", Num(2), Num(10), Num(20), Absent)
ScenarioSell == Order(1500, 0, "sell", Num(1), Num(13), Num(13), Absent)
ScenarioOrders == { ScenarioBuy, ScenarioSell }

\* A string is the sequence of its characters.
BTCINR == <<"B", "T", "C", "I", "N", "R">>
EthInr == <<"E", "t", "h", "I", "n", "r">>
WINRINR == <<"W", "I", "N", "R", "I", "N", "R">>

\* A GET /portfolio-chart: the query arguments that portfolio_chart parses and
\* the cookies of the request, a set of <<name, value>> pairs.
Request(symbol, from_time, to_time) ==
    [symbol |-> symbol, from_time |-> from_time, to_time |-> to_time,
     cookies |-> {<<"st", "token">>}]

\* The request r sent with the cookies cs instead of its own.
WithCookies(r, cs) == [r EXCEPT !.cookies = cs]

\* request.cookies.get("st"): the values of the cookie named st, none if absent.
AuthToken(r) == {c[2] : c \in {d \in r.cookies : d[1] = "st"}}

\* A faulty variant of MissingToken: the handler goes on without a token.
MissingTokenUnchecked(r) == FALSE

\* if not auth_token: no st cookie, or one with an empty value.
MissingToken(r) == AuthToken(r) \subseteq {""}

DefaultRequest == Request(BTCINR, 0, 4)

\* The default request, with and without the st cookie.
DefaultRequests == {DefaultRequest, WithCookies(DefaultRequest, {})}

\* Requests for other symbols, and with a window that is empty or reversed.
Requests ==
    { Request(EthInr, 0, 3000), Request(WINRINR, 0, 3000),
      Request(EthInr, 3000, 3000), Request(EthInr, 3000, 0),
      WithCookies(Request(EthInr, 0, 3000), {}),
      WithCookies(Request(EthInr, 0, 3000), {<<"sid", "token">>}),
      WithCookies(Request(EthInr, 0, 3000), {<<"st", "">>}) }

RECURSIVE SeqsUpTo(_, _)
SeqsUpTo(S, n) ==
    IF n = 0 THEN {<<>>}
    ELSE LET shorter == SeqsUpTo(S, n - 1)
         IN  shorter \cup {Append(s, x) : s \in {t \in shorter : Len(t) = n - 1}, x \in S}

\* ------------------------------------------------------------------ state
VARIABLES
    pc,         \* where the handler is
    candles,    \* generate_portfolio_series: candles
    trades,     \* fetch_trades: trades; generate_portfolio_series: trades
    page,       \* fetch_trades: page
    requests,   \* outbound GETs so far: CandleRequest or PageRequest(page)
    served,     \* the order lists the closed-orders endpoint answered with
    cash, asset, trade_idx, series,
    ci,         \* position of the for loop over candles
    response,   \* what portfolio_chart returned
    req,        \* the query arguments of the request
    result_kind,\* the JSON type of "result" in the candle endpoint's answer
    currency,   \* fetch_trades: currency
    remote,     \* concurrent invocations: what the two endpoints hold
    frames,     \* concurrent invocations: the locals of each invocation
    balances,   \* concurrent invocations: cash and asset of each invocation
    call,       \* the bot: the method that was called (fn) and what it was
                \* called with: query and components (model and collection are
                \* there) of get_data_from_llm, txn_type of analyze_transactions
                \* and the transactions its get_wallet_transactions returns
    frame,      \* the bot: where the call is (bpc), its locals classification,
                \* prompt, attempt and returned (the answer of get_data_from_llm
                \* as call_gemini returned it), and what it returned to its
                \* caller (answer)
    events      \* the bot: the calls it made to the outside so far

\* The variables of the bot.
bot == <<call, frame, events>>

vars == <<pc, candles, trades, page, requests, served, cash, asset, trade_idx,
          series, ci, response, req, result_kind, currency, remote, frames,
          balances, bot>>

\* What the candle and the closed-orders endpoint may send for the symbol.
CandlePool == IF req.symbol = BTCINR THEN Candles ELSE ScenarioCandles
OrderPool == IF req.symbol = BTCINR THEN Orders ELSE ScenarioOrders

\* str.lower() on the letters of the symbols.
Lower(c) ==
    CASE c = "B" -> "b" [] c = "C" -> "c" [] c = "E" -> "e" [] c = "H" -> "h"
      [] c = "I" -> "i" [] c = "N" -> "n" [] c = "R" -> "r" [] c = "T" -> "t"
      [] c = "W" -> "w" [] OTHER -> c

LowerCase(s) == [i \in 1..Len(s) |-> Lower(s[i])]

\* s.replace("inr", ",inr"): every occurrence, scanning from the left.
RECURSIVE ReplaceInr(_)
ReplaceInr(s) ==
    IF s = <<>> THEN <<>>
    ELSE IF Len(s) >= 3 /\ SubSeq(s, 1, 3) = <<"i", "n", "r">>
    THEN <<",", "i", "n", "r">> \o ReplaceInr(SubSeq(s, 4, Len(s)))
    ELSE <<s[1]>> \o ReplaceInr(SubSeq(s, 2, Len(s)))

\* currncy = symbol.lower().replace("inr", ",inr")
CurrencyFilter(symbol) == ReplaceInr(LowerCase(symbol))

\* fetch_trades: currency = f'["{currency}"]', the value of the query
\* parameter.
CurrencyParam(token) == <<"[", "\"">> \o token \o <<"\"", "]">>

NoResponse == [status |-> 0]

\* A GET of CANDLESTICK_URL, and a GET of TRADES_URL with its page parameter.
CandleRequest == <<"candles">>
PageRequest(p) == <<"closed-orders", p, currency>>

\* A Python value that is a string (a text), or None.
Str(s) == <<"str", s>>
None == <<"none">>
IsStr(v) == v[1] = "str"
\* bool(v) of a string or None.
Truthy(v) == IsStr(v) /\ v[2] # <<>>

\* A JSON object is a dict: its <<key, value>> pairs in the order of the text.
Dict(pairs) == <<"dict", pairs>>
IsDict(v) == v[1] = "dict"

NoAnswer == <<"pending">>

\* A wallet-transactions answer without deposits and withdrawals.
NoWallet == [error |-> FALSE, deposits |-> <<>>, withdrawals |-> <<>>]

\* A call of the method fn of the bot with its arguments.
Call(fn, query, components, txn_type, transactions) ==
    [fn |-> fn, query |-> query, components |-> components,
     txn_type |-> txn_type, transactions |-> transactions]

\* The locals of a call that is at bpc, with the prompt of call_gemini.
Frame(bpc, prompt) ==
    [bpc |-> bpc, classification |-> Dict(<<>>), prompt |-> prompt, attempt |-> 0,
     returned |-> None, answer |-> NoAnswer]

\* No method of the bot has been called.
BotIdle ==
    /\ call = Call("none", None, FALSE, None, NoWallet)
    /\ frame = Frame("idle", None)
    /\ events = <<>>

\* The handler is entered with the request r.
Parsed(r) ==
    /\ req = r
    /\ result_kind = "none"
    /\ currency = <<>>
    /\ pc = "check_cookie"
    /\ candles = <<>>
    /\ trades = <<>>
    /\ page = 1
    /\ requests = <<>>
    /\ served = <<>>
    /\ cash = 0
    /\ asset = 0
    /\ trade_idx = 0
    /\ series = <<>>
    /\ ci = 1
    /\ response = NoResponse

\* One invocation, followed step by step.
Start(r) ==
    /\ Parsed(r)
    /\ remote = <<>>
    /\ frames = <<>>
    /\ balances = <<>>
    /\ BotIdle

Init == \E r \in DefaultRequests : Start(r)

\* The same handler, for any of the requests.
RequestInit == \E r \in Requests : Start(r)

\* The st cookie is missing: the handler answers 401 before anything else.
Unauthorized ==
    /\ pc = "check_cookie"
    /\ MissingToken(req)
    /\ response' = [status |-> 401,
                    error |-> "Missing authentication token (cookie 'st' not found)"]
    /\ pc' = "responded"
    /\ UNCHANGED <<candles, trades, page, requests, served, cash, asset,
                   trade_idx, series, ci>>
    /\ UNCHANGED <<req, result_kind, currency, remote, frames, balances, bot>>

\* The st cookie is there: the handler parses the arguments and makes its
\* PortfolioAnalyzer with the token.
CookieFound ==
    /\ pc = "check_cookie"
    /\ ~MissingToken(req)
    /\ pc' = "fetch_candles"
    /\ UNCHANGED <<candles, trades, page, requests, served, cash, asset,
                   trade_idx, series, ci, response>>
    /\ UNCHANGED <<req, result_kind, currency, remote, frames, balances, bot>>

\* A faulty variant of ErrorResponse: a best-effort answer with what was built so far.
ErrorResponseBestEffort(e) ==
    [status |-> 200, data |-> [series |-> series, candles |-> candles]]

\* portfolio_chart's except clause: any exception becomes a 500 response.
ErrorResponse(e) == [status |-> 500, error |-> e]

Raise(e) ==
    /\ pc' = "responded"
    /\ response' = ErrorResponse(e)

\* ------------------------------------------------------------ candle fetch
\* fetch_candlestick_data answered with a "result" list.
FetchCandlesOk ==
    /\ pc = "fetch_candles"
    /\ \E cs \in SeqsUpTo(CandlePool, MaxCandles) :
          candles' = cs
    /\ result_kind' = "list"
    /\ requests' = Append(requests, CandleRequest)
    /\ currency' = CurrencyParam(CurrencyFilter(req.symbol))
    /\ pc' = "fetch_trades"
    /\ UNCHANGED <<trades, page, served, cash, asset, trade_idx, series, ci, response>>
    /\ UNCHANGED <<req, remote, frames, balances, bot>>

\* fetch_candlestick_data answered with a "result" that is no list: the empty
\* object, or a number.  resp.json()["result"] returns it as it is; candles
\* then holds what iterating it yields.
FetchCandlesNotAList ==
    /\ pc = "fetch_candles"
    /\ \E k \in {"object", "number"} : result_kind' = k
    /\ candles' = <<>>
    /\ requests' = Append(requests, CandleRequest)
    /\ currency' = CurrencyParam(CurrencyFilter(req.symbol))
    /\ pc' = "fetch_trades"
    /\ UNCHANGED <<trades, page, served, cash, asset, trade_idx, series, ci, response>>
    /\ UNCHANGED <<req, remote, frames, balances, bot>>

\* raise_for_status raises, or the body has no "result".
FetchCandlesFail ==
    /\ pc = "fetch_candles"
    /\ requests' = Append(requests, CandleRequest)
    /\ \E e \in {"HTTPError", "KeyError"} :
          /\ Raise(e)
          /\ result_kind' = IF e = "KeyError" THEN "missing" ELSE result_kind
    /\ UNCHANGED <<candles, trades, page, served, cash, asset, trade_idx, series, ci>>
    /\ UNCHANGED <<req, currency, remote, frames, balances, bot>>

\* ------------------------------------------------------------- trade fetch
\* A faulty variant of Extend: the page replaces what was accumulated.
ExtendReplacing(ts, orders) == orders

\* trades.extend(orders)
Extend(ts, orders) == ts \o orders

\* A faulty variant of NextPage: the same page is asked for again.
NextPageSame(p) == p

\* page += 1
NextPage(p) == p + 1

\* A faulty variant of FetchTradesPage: the loop is left after the first
\* non-empty page.
FetchTradesPageOnce ==
    /\ pc = "fetch_trades"
    /\ Len(trades) < MaxTrades
    /\ \E orders \in SeqsUpTo(OrderPool, MaxTrades - Len(trades)) \ {<<>>} :
          /\ trades' = Extend(trades, orders)
          /\ served' = Append(served, orders)
    /\ requests' = Append(requests, PageRequest(page))
    /\ page' = NextPage(page)
    /\ pc' = "sort"
    /\ UNCHANGED <<candles, cash, asset, trade_idx, series, ci, response>>
    /\ UNCHANGED <<req, result_kind, currency, remote, frames, balances, bot>>

\* One round of the while loop with a non-empty page.
FetchTradesPage ==
    /\ pc = "fetch_trades"
    /\ Len(trades) < MaxTrades
    /\ \E orders \in SeqsUpTo(OrderPool, MaxTrades - Len(trades)) \ {<<>>} :
          /\ trades' = Extend(trades, orders)
          /\ served' = Append(served, orders)
    /\ requests' = Append(requests, PageRequest(page))
    /\ page' = NextPage(page)
    /\ UNCHANGED <<pc, candles, cash, asset, trade_idx, series, ci, response>>
    /\ UNCHANGED <<req, result_kind, currency, remote, frames, balances, bot>>

\* The round that gets an empty page: break, return trades.
FetchTradesLastPage ==
    /\ pc = "fetch_trades"
    /\ requests' = Append(requests, PageRequest(page))
    /\ served' = Append(served, <<>>)
    /\ pc' = "sort"
    /\ UNCHANGED <<candles, trades, page, cash, asset, trade_idx, series, ci, response>>
    /\ UNCHANGED <<req, result_kind, currency, remote, frames, balances, bot>>

\* A faulty variant of FetchTradesFail: the failure ends the loop and the
\* orders accumulated so far are returned.
FetchTradesFailReturnsPartial ==
    /\ pc = "fetch_trades"
    /\ requests' = Append(requests, PageRequest(page))
    /\ pc' = "sort"
    /\ UNCHANGED <<candles, trades, page, served, cash, asset, trade_idx, series, ci,
                   response>>
    /\ UNCHANGED <<req, result_kind, currency, remote, frames, balances, bot>>

\* raise_for_status raises, or the body has no data.orders.
FetchTradesFail ==
    /\ pc = "fetch_trades"
    /\ requests' = Append(requests, PageRequest(page))
    /\ \E e \in {"HTTPError", "KeyError"} : Raise(e)
    /\ UNCHANGED <<candles, trades, page, served, cash, asset, trade_idx, series, ci>>
    /\ UNCHANGED <<req, result_kind, currency, remote, frames, balances, bot>>

\* -------------------------------------------------------------------- sort
\* trade_ts: created_at as epoch milliseconds, truncated.
trade_ts(t) == t.created_at \div TicksPerMs

\* t goes behind every element whose key is not greater: the sort is stable.
RECURSIVE InsertByTs(_, _)
InsertByTs(s, t) ==
    IF s = <<>> THEN <<t>>
    ELSE IF trade_ts(s[Len(s)]) <= trade_ts(t) THEN Append(s, t)
    ELSE Append(InsertByTs(SubSeq(s, 1, Len(s) - 1), t), s[Len(s)])

RECURSIVE SortedByTs(_)
SortedByTs(s) ==
    IF s = <<>> THEN <<>>
    ELSE InsertByTs(SortedByTs(SubSeq(s, 1, Len(s) - 1)), s[Len(s)])

\* trades = sorted(trades, key=trade_ts) and the four initialisations.
SortTrades ==
    /\ pc = "sort"
    /\ trades' = SortedByTs(trades)
    /\ cash' = 0
    /\ asset' = 0
    /\ trade_idx' = 0
    /\ series' = <<>>
    /\ ci' = 1
    /\ pc' = "merge"
    /\ UNCHANGED <<candles, page, requests, served, response>>
    /\ UNCHANGED <<req, result_kind, currency, remote, frames, balances, bot>>

\* ------------------------------------------------------------------- merge
\* A faulty variant of SettlementField: quote_amount is looked up first.
SettlementFieldQuoteFirst(t) ==
    IF t.quote_amount # Absent THEN t.quote_amount
    ELSE IF t.inr_amount # Absent THEN t.inr_amount
    ELSE Num(0)

\* t.get("inr_amount", t.get("quote_amount", 0))
SettlementField(t) ==
    IF t.inr_amount # Absent THEN t.inr_amount
    ELSE IF t.quote_amount # Absent THEN t.quote_amount
    ELSE Num(0)

\* The three float() conversions of a trade succeed.
TradeParses(t) ==
    /\ IsNum(t.executed_quantity)
    /\ IsNum(t.average_execution_price)
    /\ IsNum(SettlementField(t))

\* Faulty variants of Due: a strict comparison; no comparison at all.
DueStrict(t, ts) == trade_ts(t) < ts
DueAlways(t, ts) == TRUE

\* A faulty variant of Due: trades executed before the requested window are
\* not applied.
DueInWindow(t, ts) == trade_ts(t) <= ts /\ trade_ts(t) >= req.from_time

\* The while condition, for the trade under the cursor.
Due(t, ts) == trade_ts(t) <= ts

\* Faulty variants of ApplyTrade: a buy adds its amount to the cash; a sell
\* is not applied.
ApplyTradeBuyAddsCash(b, t) ==
    LET qty == FloatOf(t.executed_quantity)
        inr_amount == FloatOf(SettlementField(t))
    IN  IF t.trade_type = "buy"
        THEN [cash |-> FAdd(b.cash, inr_amount), asset |-> FAdd(b.asset, qty)]
        ELSE IF t.trade_type = "sell"
        THEN [cash |-> FAdd(b.cash, inr_amount), asset |-> FSub(b.asset, qty)]
        ELSE b

ApplyTradeSellIgnored(b, t) ==
    LET qty == FloatOf(t.executed_quantity)
        inr_amount == FloatOf(SettlementField(t))
    IN  IF t.trade_type = "buy"
        THEN [cash |-> FSub(b.cash, inr_amount), asset |-> FAdd(b.asset, qty)]
        ELSE b

\* A faulty variant of ApplyTrade: every trade that is no buy is a sell.
ApplyTradeElseSell(b, t) ==
    LET qty == FloatOf(t.executed_quantity)
        inr_amount == FloatOf(SettlementField(t))
    IN  IF t.trade_type = "buy"
        THEN [cash |-> FSub(b.cash, inr_amount), asset |-> FAdd(b.asset, qty)]
        ELSE [cash |-> FAdd(b.cash, inr_amount), asset |-> FSub(b.asset, qty)]

\* The body of the while loop on the balance b = [cash, asset].
ApplyTrade(b, t) ==
    LET qty == FloatOf(t.executed_quantity)
        inr_amount == FloatOf(SettlementField(t))
    IN  IF t.trade_type = "buy"
        THEN [cash |-> FSub(b.cash, inr_amount), asset |-> FAdd(b.asset, qty)]
        ELSE IF t.trade_type = "sell"
        THEN [cash |-> FAdd(b.cash, inr_amount), asset |-> FSub(b.asset, qty)]
        ELSE b

\* Faulty variants of DrainTrades: the cursor moves by two for one applied
\* trade; the body runs once before the condition is tested.
RECURSIVE DrainTradesSkipping(_, _, _, _)
DrainTradesSkipping(trs, idx, b, ts) ==
    IF idx < Len(trs) /\ Due(trs[idx + 1], ts)
    THEN IF TradeParses(trs[idx + 1])
         THEN DrainTradesSkipping(trs, idx + 2, ApplyTrade(b, trs[idx + 1]), ts)
         ELSE [ok |-> FALSE, idx |-> idx, b |-> b]
    ELSE [ok |-> TRUE, idx |-> idx, b |-> b]

RECURSIVE DrainTradesDoWhile(_, _, _, _)
DrainTradesDoWhile(trs, idx, b, ts) ==
    IF idx < Len(trs)
    THEN IF TradeParses(trs[idx + 1])
         THEN IF idx + 1 < Len(trs) /\ Due(trs[idx + 2], ts)
              THEN DrainTradesDoWhile(trs, idx + 1, ApplyTrade(b, trs[idx + 1]), ts)
              ELSE [ok |-> TRUE, idx |-> idx + 1, b |-> ApplyTrade(b, trs[idx + 1])]
         ELSE [ok |-> FALSE, idx |-> idx, b |-> b]
    ELSE [ok |-> TRUE, idx |-> idx, b |-> b]

\* The while loop: from cursor idx and balance b, apply the due trades.
RECURSIVE DrainTrades(_, _, _, _)
DrainTrades(trs, idx, b, ts) ==
    IF idx < Len(trs) /\ Due(trs[idx + 1], ts)
    THEN IF TradeParses(trs[idx + 1])
         THEN DrainTrades(trs, idx + 1, ApplyTrade(b, trs[idx + 1]), ts)
         ELSE [ok |-> FALSE, idx |-> idx, b |-> b]
    ELSE [ok |-> TRUE, idx |-> idx, b |-> b]

\* A faulty variant of Point: the total adds the quantity, not its value.
PointTotalOfQuantity(ts, price, b) ==
    LET asset_value == FMul(b.asset, price)
        total == FAdd(b.cash, b.asset)
    IN  [timestamp |-> ts, cash |-> b.cash, asset |-> b.asset,
         asset_value |-> asset_value, total |-> total]

\* The dictionary appended for a candle.
Point(ts, price, b) ==
    LET asset_value == FMul(b.asset, price)
        total == FAdd(b.cash, asset_value)
    IN  [timestamp |-> ts, cash |-> b.cash, asset |-> b.asset,
         asset_value |-> asset_value, total |-> total]

\* A faulty variant of Emit: a candle that changes no balance gets no point.
EmitOnChange(out, p) ==
    IF out # <<>> /\ out[Len(out)].cash = p.cash /\ out[Len(out)].asset = p.asset
    THEN out
    ELSE Append(out, p)

\* series.append(...)
Emit(out, p) == Append(out, p)

\* One round of the for loop.
MergeCandle ==
    /\ pc = "merge"
    /\ ci <= Len(candles)
    /\ LET candle == candles[ci]
           ts == candle.close_time
           d == DrainTrades(trades, trade_idx, [cash |-> cash, asset |-> asset], ts)
       IN  /\ IsNum(candle.c)
           /\ d.ok
           /\ cash' = d.b.cash
           /\ asset' = d.b.asset
           /\ trade_idx' = d.idx
           /\ series' = Emit(series, Point(ts, FloatOf(candle.c), d.b))
    /\ ci' = ci + 1
    /\ UNCHANGED <<pc, candles, trades, page, requests, served, response>>
    /\ UNCHANGED <<req, result_kind, currency, remote, frames, balances, bot>>

\* A round in which a float() conversion raises ValueError: of the close
\* price before the while loop, or of a trade's field inside it.
MergeCandleFail ==
    /\ pc = "merge"
    /\ ci <= Len(candles)
    /\ LET candle == candles[ci]
           d == DrainTrades(trades, trade_idx, [cash |-> cash, asset |-> asset],
                            candle.close_time)
       IN  IF ~IsNum(candle.c)
           THEN UNCHANGED <<cash, asset, trade_idx>>
           ELSE /\ ~d.ok
                /\ cash' = d.b.cash
                /\ asset' = d.b.asset
                /\ trade_idx' = d.idx
    /\ Raise("ValueError")
    /\ UNCHANGED <<candles, trades, page, requests, served, series, ci>>
    /\ UNCHANGED <<req, result_kind, currency, remote, frames, balances, bot>>

\* for candle in candles works on a list and on an object, not on a number.
Iterable == result_kind # "number"

\* The for statement raises TypeError: candles is not iterable.
MergeNotIterable ==
    /\ pc = "merge"
    /\ ~Iterable
    /\ Raise("TypeError")
    /\ UNCHANGED <<candles, trades, page, requests, served, cash, asset, trade_idx,
                   series, ci>>
    /\ UNCHANGED <<req, result_kind, currency, remote, frames, balances, bot>>

\* A faulty variant of Return: the candles go out newest first.
ReturnNewestFirst ==
    /\ pc = "merge"
    /\ Iterable
    /\ ci > Len(candles)
    /\ response' = [status |-> 200,
                    data |-> [series |-> series,
                              candles |-> [i \in 1..Len(candles) |->
                                              candles[Len(candles) + 1 - i]]]]
    /\ pc' = "responded"
    /\ UNCHANGED <<candles, trades, page, requests, served, cash, asset, trade_idx,
                   series, ci>>
    /\ UNCHANGED <<req, result_kind, currency, remote, frames, balances, bot>>

\* return {"series": series, "candles": candles}, then the 200 response.
Return ==
    /\ pc = "merge"
    /\ Iterable
    /\ ci > Len(candles)
    /\ response' = [status |-> 200, data |-> [series |-> series, candles |-> candles]]
    /\ pc' = "responded"
    /\ UNCHANGED <<candles, trades, page, requests, served, cash, asset, trade_idx,
                   series, ci>>
    /\ UNCHANGED <<req, result_kind, currency, remote, frames, balances, bot>>

\* generate_portfolio_series from the sort on, as a function of the candles
\* and of the trades as fetched: the rounds of the for loop from candle i.
RECURSIVE MergeFrom(_, _, _, _, _, _)
MergeFrom(cs, trs, i, idx, b, out) ==
    IF i > Len(cs) THEN [ok |-> TRUE, series |-> out]
    ELSE LET d == DrainTrades(trs, idx, b, cs[i].close_time)
         IN  IF IsNum(cs[i].c) /\ d.ok
             THEN MergeFrom(cs, trs, i + 1, d.idx, d.b,
                            Emit(out, Point(cs[i].close_time, FloatOf(cs[i].c), d.b)))
             ELSE [ok |-> FALSE, series |-> out]

BuildSeries(cs, fetched) ==
    MergeFrom(cs, SortedByTs(fetched), 1, 0, [cash |-> 0, asset |-> 0], <<>>)

Next ==
    \/ Unauthorized
    \/ CookieFound
    \/ FetchCandlesOk
    \/ FetchCandlesNotAList
    \/ FetchCandlesFail
    \/ FetchTradesPage
    \/ FetchTradesLastPage
    \/ FetchTradesFail
    \/ SortTrades
    \/ MergeCandle
    \/ MergeCandleFail
    \/ MergeNotIterable
    \/ Return

Spec == Init /\ [][Next]_vars

\* The handler on the requests of Requests.
RequestSpec == RequestInit /\ [][Next]_vars

\* -------------------------------------------------- concurrent invocations
\* Two invocations of generate_portfolio_series on one PortfolioAnalyzer, for
\* the same arguments, against endpoints that hold the same data throughout.
\* Each invocation has its own frame of locals; the steps of the two
\* interleave in any order, one after the other included.
Calls == {1, 2}

single == <<pc, candles, trades, page, requests, served, cash, asset, trade_idx,
            series, ci, response, req, result_kind, currency>>

NewFrame ==
    [pc |-> "idle", candles |-> <<>>, trades |-> <<>>, trade_idx |-> 0,
     series |-> <<>>, ci |-> 1, result |-> NoResponse]

ConcurrentInit ==
    /\ Parsed(Request(EthInr, 0, 3000))
    /\ remote \in [candles : SeqsUpTo(CandlePool, MaxCandles),
                    trades : SeqsUpTo(OrderPool, MaxTrades)]
    /\ frames = [c \in Calls |-> NewFrame]
    /\ balances = [c \in Calls |-> [cash |-> 0, asset |-> 0]]
    /\ BotIdle

\* A faulty variant of BalanceOwner: cash and asset are attributes of the
\* PortfolioAnalyzer, one pair for all invocations.
BalanceOwnerInstance(c) == 1

\* cash and asset are locals of the invocation.
BalanceOwner(c) == c

\* Invocation c fetches the candles and the trades, sorts the trades and
\* initialises cash, asset, trade_idx and series.
CallFetch(c) ==
    /\ frames[c].pc = "idle"
    /\ frames' = [frames EXCEPT ![c] =
                    [pc |-> "merge", candles |-> remote.candles,
                     trades |-> SortedByTs(remote.trades), trade_idx |-> 0,
                     series |-> <<>>, ci |-> 1, result |-> NoResponse]]
    /\ balances' = [balances EXCEPT ![BalanceOwner(c)] = [cash |-> 0, asset |-> 0]]
    /\ UNCHANGED <<single, remote, bot>>

\* One round of the for loop of invocation c.
CallMerge(c) ==
    LET f == frames[c]
    IN  /\ f.pc = "merge"
        /\ f.ci <= Len(f.candles)
        /\ LET candle == f.candles[f.ci]
               ts == candle.close_time
               d == DrainTrades(f.trades, f.trade_idx, balances[BalanceOwner(c)], ts)
           IN  /\ IsNum(candle.c)
               /\ d.ok
               /\ balances' = [balances EXCEPT ![BalanceOwner(c)] = d.b]
               /\ frames' = [frames EXCEPT ![c] =
                               [f EXCEPT !.trade_idx = d.idx,
                                         !.series = Emit(f.series,
                                                         Point(ts, FloatOf(candle.c), d.b)),
                                         !.ci = f.ci + 1]]
        /\ UNCHANGED <<single, remote, bot>>

\* A round of invocation c in which a float() conversion raises ValueError.
CallMergeFail(c) ==
    LET f == frames[c]
    IN  /\ f.pc = "merge"
        /\ f.ci <= Len(f.candles)
        /\ LET candle == f.candles[f.ci]
               d == DrainTrades(f.trades, f.trade_idx, balances[BalanceOwner(c)],
                                candle.close_time)
           IN  /\ IF ~IsNum(candle.c)
                  THEN UNCHANGED balances
                  ELSE /\ ~d.ok
                       /\ balances' = [balances EXCEPT ![BalanceOwner(c)] = d.b]
               /\ frames' = [frames EXCEPT ![c] =
                               [f EXCEPT !.pc = "done",
                                         !.trade_idx = IF IsNum(candle.c) THEN d.idx
                                                       ELSE f.trade_idx,
                                         !.result = ErrorResponse("ValueError")]]
        /\ UNCHANGED <<single, remote, bot>>

\* Invocation c returns its series and candles.
CallReturn(c) ==
    LET f == frames[c]
    IN  /\ f.pc = "merge"
        /\ f.ci > Len(f.candles)
        /\ frames' = [frames EXCEPT ![c] =
                        [f EXCEPT !.pc = "done",
                                  !.result = [status |-> 200,
                                              data |-> [series |-> f.series,
                                                        candles |-> f.candles]]]]
        /\ UNCHANGED <<single, remote, balances, bot>>

ConcurrentNext ==
    \E c \in Calls :
        \/ CallFetch(c)
        \/ CallMerge(c)
        \/ CallMergeFail(c)
        \/ CallReturn(c)

ConcurrentSpec == ConcurrentInit /\ [][ConcurrentNext]_vars

\* ------------------------------------------------------------------ the bot
\* BotFacade (src/helper.py) with its QueryClassifier (src/query_classifier.py)
\* and its CSProAPIClient (src/api_client_v2.py).  One call of one method is
\* followed: get_data_from_llm, call_gemini or analyze_transactions.
\*
\* A text is a sequence of tokens: a word, a blank, or a fixed phrase such as
\* "Error:" that the code tests a text for.
Blank == " "

\* s.strip(): s without the blanks at its two ends.
RECURSIVE LStrip(_)
LStrip(s) == IF s # <<>> /\ Head(s) = Blank THEN LStrip(Tail(s)) ELSE s

RECURSIVE RStrip(_)
RStrip(s) ==
    IF s # <<>> /\ s[Len(s)] = Blank THEN RStrip(SubSeq(s, 1, Len(s) - 1)) ELSE s

Strip(s) == RStrip(LStrip(s))

\* s.startswith(phrase)
StartsWith(s, phrase) == s # <<>> /\ s[1] = phrase

\* The fixed answers of BotFacade.
InvalidPrompt == <<"Error:", " Invalid prompt">>
GeminiApology ==
    <<"I apologize",
      ", but I'm having trouble generating a response right now. Please try again later.">>
InvalidQuery == <<"Error:", " Invalid query">>
NotInitialized == <<"Error:", " Required components not initialized">>
NoInformation ==
    <<"I apologize", ", but I couldn't find relevant information to answer your question.">>
Trouble ==
    <<"I apologize", ", but I'm having trouble generating a response right now.">>
Unexpected ==
    <<"I apologize", ", but I encountered an unexpected error processing your request.">>

\* The calls the bot makes to the outside, as they are logged in events.
Generated(r) == [call |-> "generate_content", ok |-> r.ok, text |-> r.text]
Slept(delay) == [call |-> "sleep", delay |-> delay]
Called(name) == [call |-> name]

\* The portfolio handler, which takes no step while the bot is followed.
portfolio == <<single, remote, frames, balances>>

\* ------------------------------------------------------------- call_gemini
max_retries == 3
base_delay == 1

\* The prompts call_gemini may be called with.
Prompts == { None, Str(<<>>), Str(<<Blank>>), Str(<<"hello">>) }

\* The texts a generation may come back with.
GeminiTexts ==
    { <<"answer">>, <<Blank, "answer", Blank>>, <<"Error:", " quota">>,
      <<"I apologize", " for the delay">>, <<Blank>> }

\* What model.generate_content(prompt) may do: raise, or return a response
\* that has a text attribute or not, and parts with a text each.
GenerateOutcomes ==
    { [raises |-> TRUE, has_text |-> FALSE, text |-> <<>>, parts |-> <<>>] }
    \cup { [raises |-> FALSE, has_text |-> TRUE, text |-> t, parts |-> <<>>] :
             t \in GeminiTexts }
    \cup { [raises |-> FALSE, has_text |-> FALSE, text |-> <<>>, parts |-> ps] :
             ps \in { <<>>, << <<"answer">> >>, << <<"part">>, <<"answer">> >> } }

\* The try block of one attempt: the text it returns, or ok FALSE if it raises
\* (generate_content itself, or ValueError for a response without text and
\* without parts).
ResponseText(o) ==
    IF o.raises THEN [ok |-> FALSE, text |-> <<>>]
    ELSE IF o.has_text THEN [ok |-> TRUE, text |-> o.text]
    ELSE IF o.parts # <<>> THEN [ok |-> TRUE, text |-> o.parts[1]]
    ELSE [ok |-> FALSE, text |-> <<>>]

\* not isinstance(prompt, str) or not prompt.strip(), negated.
ValidPrompt(p) == IsStr(p) /\ Strip(p[2]) # <<>>

\* delay = base_delay * (2 ** attempt)
Delay(a) == base_delay * Pow2(a)

\* A faulty variant of Retrying: a wait follows every failed attempt.
RetryingAlways(a) == a < max_retries

\* if attempt < max_retries - 1
Retrying(a) == a < max_retries - 1

\* call_gemini returns the text v: to the caller of the bot, or into answer of
\* get_data_from_llm.
CallGeminiReturns(v) ==
    frame' = IF call.fn = "call_gemini"
             THEN [frame EXCEPT !.answer = Str(v), !.bpc = "done"]
             ELSE [frame EXCEPT !.returned = Str(v), !.bpc = "llm_answered"]

CallGeminiInvalid ==
    /\ frame.bpc = "call_gemini"
    /\ ~ValidPrompt(frame.prompt)
    /\ CallGeminiReturns(InvalidPrompt)
    /\ UNCHANGED <<call, events>>
    /\ UNCHANGED portfolio

\* The for loop over range(max_retries) is entered.
CallGeminiLoop ==
    /\ frame.bpc = "call_gemini"
    /\ ValidPrompt(frame.prompt)
    /\ frame' = [frame EXCEPT !.attempt = 0, !.bpc = "generate"]
    /\ UNCHANGED <<call, events>>
    /\ UNCHANGED portfolio

\* An attempt that returns a text.
GenerateOk ==
    /\ frame.bpc = "generate"
    /\ frame.attempt < max_retries
    /\ \E o \in GenerateOutcomes :
          /\ ResponseText(o).ok
          /\ events' = Append(events, Generated(ResponseText(o)))
          /\ CallGeminiReturns(ResponseText(o).text)
    /\ UNCHANGED call
    /\ UNCHANGED portfolio

\* An attempt that raises, before the last: sleep, then the next attempt.
GenerateFailRetry ==
    /\ frame.bpc = "generate"
    /\ frame.attempt < max_retries
    /\ Retrying(frame.attempt)
    /\ \E o \in GenerateOutcomes :
          /\ ~ResponseText(o).ok
          /\ events' = events \o <<Generated(ResponseText(o)),
                                   Slept(Delay(frame.attempt))>>
    /\ frame' = [frame EXCEPT !.attempt = frame.attempt + 1]
    /\ UNCHANGED call
    /\ UNCHANGED portfolio

\* The last attempt raises: the apology is returned.
GenerateFailLast ==
    /\ frame.bpc = "generate"
    /\ frame.attempt < max_retries
    /\ ~Retrying(frame.attempt)
    /\ \E o \in GenerateOutcomes :
          /\ ~ResponseText(o).ok
          /\ events' = Append(events, Generated(ResponseText(o)))
    /\ CallGeminiReturns(GeminiApology)
    /\ UNCHANGED call
    /\ UNCHANGED portfolio

\* ---------------------------------------------------- analyze_transactions
\* t.lower() and t.upper() of the one-word texts that occur.
LowerToken(t) ==
    CASE t = "Deposit" -> "deposit" [] t = "WITHDRAWAL" -> "withdrawal"
      [] t = "ALL" -> "all" [] OTHER -> t

LowerText(s) == [i \in 1..Len(s) |-> LowerToken(s[i])]

UpperToken(t) ==
    CASE t = "completed" -> "COMPLETED" [] t = "Completed" -> "COMPLETED"
      [] t = "pending" -> "PENDING" [] OTHER -> t

UpperText(s) == [i \in 1..Len(s) |-> UpperToken(s[i])]

\* A deposit or a withdrawal of the wallet-transactions endpoint.
WalletEntry(amount, status) == [amount |-> amount, status |-> status]

WalletEntries ==
    { WalletEntry(Num(3), <<"COMPLETED">>), WalletEntry(Num(Big + 1), <<"completed">>),
      WalletEntry(Absent, <<"Completed">>), WalletEntry(BadNum, <<"COMPLETED">>),
      WalletEntry(Num(2), <<"pending">>) }

\* What get_wallet_transactions may return: an error, or the data.
WalletResponses ==
    { [NoWallet EXCEPT !.error = TRUE] }
    \cup { [error |-> FALSE, deposits |-> d, withdrawals |-> w] :
             d \in SeqsUpTo(WalletEntries, MaxEntries),
             w \in SeqsUpTo(WalletEntries, MaxEntries) }

\* The transaction types analyze_transactions may be called with.
TxnTypes ==
    { None, Str(<<>>), Str(<<"all">>), Str(<<"deposit">>), Str(<<"Deposit">>),
      Str(<<"withdrawal">>) }

\* if txn_type and txn_type.lower() != kind: continue
Skipped(t, kind) == Truthy(t) /\ LowerText(t[2]) # <<kind>>

\* float(entry.get('amount', 0)) raises ValueError.
AmountFails(e) == e.amount[1] = "bad"

\* float(entry.get('amount', 0))
AmountOf(e) == IF e.amount[1] = "absent" THEN 0 ELSE FloatOf(e.amount)

\* One of the two loops of analyze_transactions: total_amount and count after
\* the entries, from acc.
RECURSIVE Accumulate(_, _, _, _)
Accumulate(entries, t, kind, acc) ==
    IF entries = <<>> THEN acc
    ELSE LET e == Head(entries)
             rest == Tail(entries)
         IN  IF Skipped(t, kind) \/ AmountFails(e)
             THEN Accumulate(rest, t, kind, acc)
             ELSE IF UpperText(e.status) = <<"COMPLETED">>
             THEN Accumulate(rest, t, kind,
                             [total_amount |-> FAdd(acc.total_amount, AmountOf(e)),
                              count |-> acc.count + 1])
             ELSE Accumulate(rest, t, kind, acc)

NoTransactions == [total_amount |-> 0, count |-> 0]

\* The totals and counts of the analysis that analyze_transactions returns.
Analysis(t, w) ==
    [deposits |-> Accumulate(w.deposits, t, "deposit", NoTransactions),
     withdrawals |-> Accumulate(w.withdrawals, t, "withdrawal", NoTransactions)]

\* get_wallet_transactions returned an error, which is handed on.
AnalyzeTransactionsError ==
    /\ frame.bpc = "analyze_transactions"
    /\ call.transactions.error
    /\ events' = Append(events, Called("get_wallet_transactions"))
    /\ frame' = [frame EXCEPT !.answer = <<"error">>, !.bpc = "done"]
    /\ UNCHANGED call
    /\ UNCHANGED portfolio

AnalyzeTransactions ==
    /\ frame.bpc = "analyze_transactions"
    /\ ~call.transactions.error
    /\ events' = Append(events, Called("get_wallet_transactions"))
    /\ frame' = [frame EXCEPT
                   !.answer = <<"analysis", Analysis(call.txn_type, call.transactions)>>,
                   !.bpc = "done"]
    /\ UNCHANGED call
    /\ UNCHANGED portfolio

\* -------------------------------------------------------- get_data_from_llm
HasKey(d, k) == \E i \in 1..Len(d[2]) : d[2][i][1] = k
\* d[k] of a dict that has the key k.
Get(d, k) == d[2][CHOOSE i \in 1..Len(d[2]) : d[2][i][1] = k][2]
\* list(d): iterating a dict yields its keys.
Keys(d) == [i \in 1..Len(d[2]) |-> Str(<<d[2][i][1]>>)]

Category(name) == <<"category", Str(<<name>>)>>
Params(pairs) == <<"params", Dict(pairs)>>

\* The JSON objects the classifying model may answer with.
Classifications ==
    { Dict(<<Category("WALLET_API"), Params(<< <<"type", Str(<<"deposit">>)>> >>)>>),
      Dict(<<Category("WALLET_API"), Params(<<>>)>>),
      Dict(<<Category("WALLET_API")>>),
      Dict(<<Category("TRADING_API"), Params(<< <<"symbol", Str(<<"btc">>)>> >>)>>),
      Dict(<<Params(<<>>), Category("TRADING_API")>>),
      Dict(<<Category("FEES_DATA"), Params(<<>>)>>),
      Dict(<<Category("FAQ_DB"), Params(<<>>)>>),
      Dict(<<Category("WALLET_API"), Params(<<>>), <<"confidence", Str(<<"high">>)>> >>),
      Dict(<<Params(<<>>)>>) }

\* What the try block of classify_query may meet: an exception (of
\* generate_content or of json.loads), or a JSON object.
ClassifierOutcomes ==
    { [raises |-> TRUE, json |-> Dict(<<>>)] }
    \cup { [raises |-> FALSE, json |-> c] : c \in Classifications }

Fallback == Dict(<<Category("FAQ_DB"), Params(<<>>)>>)

\* classify_query: the classification it returns.
classify_query(o) ==
    IF o.raises \/ ~HasKey(o.json, "category") THEN Fallback
    ELSE IF ~HasKey(o.json, "params") THEN Dict(Append(o.json[2], Params(<<>>)))
    ELSE o.json

\* The queries, and the lists query_db may return: documents, a note that
\* nothing was found, or an error.
Queries == { None, Str(<<>>), Str(<<"question">>) }

ContextLists ==
    { << <<"Error:", " Database search failed">> >>,
      << <<"No relevant information found in the database.">> >>,
      << <<"doc1">> >>,
      << <<"doc1">>, <<"Error:", " in a document">> >> }

RECURSIVE Numbered(_, _)
Numbered(contexts, i) ==
    IF i > Len(contexts) THEN <<>>
    ELSE <<"item">> \o contexts[i] \o Numbered(contexts, i + 1)

\* build_prompt(query, contexts, user_trades=None)
build_prompt(q, contexts) ==
    <<"You are an expert advisor", "CONTEXT:", "FAQ_DOCS:">> \o Numbered(contexts, 1)
        \o <<"QUESTION:">> \o q[2] \o <<"Answer:">>

\* not contexts or all(c.startswith("Error:") for c in contexts)
NothingFound(contexts) ==
    contexts = <<>> \/ \A i \in 1..Len(contexts) : StartsWith(contexts[i], "Error:")

\* The query is empty or no string.
RejectQuery ==
    /\ frame.bpc = "get_data_from_llm"
    /\ ~Truthy(call.query)
    /\ frame' = [frame EXCEPT !.answer = Str(InvalidQuery), !.bpc = "done"]
    /\ UNCHANGED <<call, events>>
    /\ UNCHANGED portfolio

\* The embedding model or the collection is missing.
RejectComponents ==
    /\ frame.bpc = "get_data_from_llm"
    /\ Truthy(call.query)
    /\ ~call.components
    /\ frame' = [frame EXCEPT !.answer = Str(NotInitialized), !.bpc = "done"]
    /\ UNCHANGED <<call, events>>
    /\ UNCHANGED portfolio

\* self.query_classifier.classify_query(query) returns.
Classify ==
    /\ frame.bpc = "get_data_from_llm"
    /\ Truthy(call.query)
    /\ call.components
    /\ \E o \in ClassifierOutcomes :
          frame' = [frame EXCEPT !.classification = classify_query(o),
                                 !.bpc = "unpack"]
    /\ events' = Append(events, Called("classify_query"))
    /\ UNCHANGED call
    /\ UNCHANGED portfolio

\* data_source, params = <the classification>: a dict of other than two keys
\* does not unpack, and the ValueError ends in the except clause.
UnpackFail ==
    /\ frame.bpc = "unpack"
    /\ Len(Keys(frame.classification)) # 2
    /\ frame' = [frame EXCEPT !.answer = Str(Unexpected), !.bpc = "done"]
    /\ UNCHANGED <<call, events>>
    /\ UNCHANGED portfolio

\* The wallet branch: params.get('type', 'all') raises AttributeError unless
\* params is a dict; the formatting reads total_deposit, deposit_count,
\* total_withdrawal, withdrawal_count or net_balance of the analysis, which
\* has none of them (KeyError).  Both end in the except clause.
WalletBranch(params) ==
    IF ~IsDict(params)
    THEN /\ frame' = [frame EXCEPT !.answer = Str(Unexpected), !.bpc = "done"]
         /\ UNCHANGED events
    ELSE /\ events' = events \o <<Called("analyze_transactions"),
                                  Called("get_wallet_transactions")>>
         /\ frame' = [frame EXCEPT
                        !.answer = IF call.transactions.error
                                   THEN Str(<<"Error fetching wallet data: ">>)
                                   ELSE Str(Unexpected),
                        !.bpc = "done"]

\* The trading branch: params.get('symbol') raises AttributeError unless
\* params is a dict; the formatting reads total_orders and total_buy_quantity
\* of the per-currency analysis, which has neither (KeyError).
TradingBranch(params) ==
    IF ~IsDict(params)
    THEN /\ frame' = [frame EXCEPT !.answer = Str(Unexpected), !.bpc = "done"]
         /\ UNCHANGED events
    ELSE /\ events' = events \o <<Called("analyze_trading_history"),
                                  Called("get_closed_orders")>>
         /\ \E history \in {"none", "some"} :
               frame' = [frame EXCEPT
                           !.answer = IF history = "none"
                                      THEN Str(<<"No trading history found">>)
                                      ELSE Str(Unexpected),
                           !.bpc = "done"]

\* data_source, params = c for a dict c of two keys: its keys, in order.
Unpacked(c) == <<Keys(c)[1], Keys(c)[2]>>

\* The branch on data_source.
Route ==
    /\ frame.bpc = "unpack"
    /\ Len(Keys(frame.classification)) = 2
    /\ LET data_source == Unpacked(frame.classification)[1]
           params == Unpacked(frame.classification)[2]
       IN  IF data_source = Str(<<"WALLET_API">>)
           THEN WalletBranch(params)
           ELSE IF data_source = Str(<<"TRADING_API">>)
           THEN TradingBranch(params)
           ELSE /\ frame' = [frame EXCEPT !.bpc = "query_db"]
                /\ UNCHANGED events
    /\ UNCHANGED call
    /\ UNCHANGED portfolio

\* query_db finds nothing to answer from.
QueryDbNothing ==
    /\ frame.bpc = "query_db"
    /\ \E contexts \in ContextLists : NothingFound(contexts)
    /\ events' = Append(events, Called("query_db"))
    /\ frame' = [frame EXCEPT !.answer = Str(NoInformation), !.bpc = "done"]
    /\ UNCHANGED call
    /\ UNCHANGED portfolio

\* query_db returns contexts; the prompt is built and call_gemini is called.
QueryDbFound ==
    /\ frame.bpc = "query_db"
    /\ \E contexts \in ContextLists :
          /\ ~NothingFound(contexts)
          /\ frame' = [frame EXCEPT !.prompt = Str(build_prompt(call.query, contexts)),
                                    !.bpc = "call_gemini"]
    /\ events' = Append(events, Called("query_db"))
    /\ UNCHANGED call
    /\ UNCHANGED portfolio

\* answer.startswith("Error:") or answer.startswith("I apologize")
LlmFailed(text) == StartsWith(text, "Error:") \/ StartsWith(text, "I apologize")

AnswerLlmError ==
    /\ frame.bpc = "llm_answered"
    /\ LlmFailed(frame.returned[2])
    /\ frame' = [frame EXCEPT !.answer = Str(Trouble), !.bpc = "done"]
    /\ UNCHANGED <<call, events>>
    /\ UNCHANGED portfolio

\* return answer.strip()
AnswerLlm ==
    /\ frame.bpc = "llm_answered"
    /\ ~LlmFailed(frame.returned[2])
    /\ frame' = [frame EXCEPT !.answer = Str(Strip(frame.returned[2])), !.bpc = "done"]
    /\ UNCHANGED <<call, events>>
    /\ UNCHANGED portfolio

\* ------------------------------------------------------------ one bot call
\* The portfolio handler is idle; one method of the bot has been called.
BotInit ==
    /\ Parsed(DefaultRequest)
    /\ remote = <<>>
    /\ frames = <<>>
    /\ balances = <<>>
    /\ events = <<>>
    /\ \/ /\ call = Call("call_gemini", None, FALSE, None, NoWallet)
          /\ \E p \in Prompts : frame = Frame("call_gemini", p)
       \/ /\ \E q \in Queries, c \in BOOLEAN :
                call = Call("get_data_from_llm", q, c, None, NoWallet)
          /\ frame = Frame("get_data_from_llm", None)
       \/ /\ \E t \in TxnTypes, w \in WalletResponses :
                call = Call("analyze_transactions", None, FALSE, t, w)
          /\ frame = Frame("analyze_transactions", None)

BotNext ==
    \/ CallGeminiInvalid
    \/ CallGeminiLoop
    \/ GenerateOk
    \/ GenerateFailRetry
    \/ GenerateFailLast
    \/ AnalyzeTransactionsError
    \/ AnalyzeTransactions
    \/ RejectQuery
    \/ RejectComponents
    \/ Classify
    \/ UnpackFail
    \/ Route
    \/ QueryDbNothing
    \/ QueryDbFound
    \/ AnswerLlmError
    \/ AnswerLlm

BotSpec == BotInit /\ [][BotNext]_vars

\* ----------------------------------------------------------------- claims
Zero == [cash |-> 0, asset |-> 0]

Ascending(cs) ==
    \A i, j \in 1..Len(cs) : i < j => cs[i].close_time <= cs[j].close_time

StrictlyAscending(cs) ==
    \A i, j \in 1..Len(cs) : i < j => cs[i].close_time < cs[j].close_time

\* The trades of trs executed at or before ts, in the order of trs.
RECURSIVE ExecutedBy(_, _)
ExecutedBy(trs, ts) ==
    IF trs = <<>> THEN <<>>
    ELSE IF trade_ts(Head(trs)) <= ts
         THEN <<Head(trs)>> \o ExecutedBy(Tail(trs), ts)
         ELSE ExecutedBy(Tail(trs), ts)

\* The balance after each trade of trs took effect once, in order.
RECURSIVE EffectOf(_, _)
EffectOf(b, trs) ==
    IF trs = <<>> THEN b ELSE EffectOf(ApplyTrade(b, Head(trs)), Tail(trs))

Succeeded == pc = "responded" /\ response.status = 200

\* The trade fetch has returned: the endpoint answered with an empty page.
TradesFetched == served # <<>> /\ served[Len(served)] = <<>>

\* C1: with candles ascending by close_time, every point carries the effect,
\* taken once each, of exactly the trades executed at or before the point's
\* timestamp: a trade is in every point from the first one at or after its
\* execution on and in none before.
C1_TradeAppliedExactlyOnce ==
    Ascending(candles) =>
        \A i \in 1..Len(series) :
            LET b == EffectOf(Zero, ExecutedBy(trades, series[i].timestamp))
            IN  series[i].cash = b.cash /\ series[i].asset = b.asset

\* Two candles, a trade in the first point and a further one only in the second.
C1_Witness ==
    /\ Succeeded
    /\ Len(series) = 2
    /\ StrictlyAscending(candles)
    /\ series[1].cash # 0
    /\ series[2].cash # series[1].cash
    /\ trade_idx < Len(trades)

\* C2: every point has total = cash + asset_value and asset_value = asset *
\* close price of its candle (in the arithmetic of the code: floats).
C2_TotalIsCashPlusAssetValue ==
    \A i \in 1..Len(series) :
        /\ series[i].total = FAdd(series[i].cash, series[i].asset_value)
        /\ series[i].asset_value = FMul(series[i].asset, FloatOf(candles[i].c))

C2_Witness ==
    /\ Succeeded
    /\ \E i \in 1..Len(response.data.series) :
          /\ response.data.series[i].asset # 0
          /\ response.data.series[i].cash # 0
          /\ response.data.series[i].total # response.data.series[i].cash

\* C3: the returned series has one point per fetched candle, in order:
\* equal lengths and series[i].timestamp = candles[i].close_time.
C3_OnePointPerCandle ==
    Succeeded =>
        /\ Len(response.data.series) = Len(candles)
        /\ \A i \in 1..Len(candles) :
              response.data.series[i].timestamp = candles[i].close_time

\* Two candles, the second of which applies no trade, and trades fetched.
C3_Witness ==
    /\ Succeeded
    /\ Len(candles) = 2
    /\ trades # <<>>
    /\ response.data.series[1].cash = response.data.series[2].cash
    /\ response.data.series[1].asset = response.data.series[2].asset

RemoveAt(s, k) == SubSeq(s, 1, k - 1) \o SubSeq(s, k + 1, Len(s))

AfterEveryCandle(t, cs) == \A i \in 1..Len(cs) : trade_ts(t) > cs[i].close_time

\* C4: a trade executed after every candle's close_time has no effect: the
\* series equals the series computed with that trade removed.
C4_LateTradeHasNoEffect ==
    Succeeded =>
        \A k \in 1..Len(trades) :
            AfterEveryCandle(trades[k], candles) =>
                BuildSeries(candles, RemoveAt(trades, k))
                    = [ok |-> TRUE, series |-> response.data.series]

\* A late trade among trades that were applied, with two points emitted.
C4_Witness ==
    /\ Succeeded
    /\ Len(series) = 2
    /\ trade_idx > 0
    /\ series[2].asset # 0
    /\ \E k \in 1..Len(trades) : AfterEveryCandle(trades[k], candles)

RECURSIVE Concat(_)
Concat(ss) == IF ss = <<>> THEN <<>> ELSE Head(ss) \o Concat(Tail(ss))

PageRequests == SelectSeq(requests, LAMBDA r : r # CandleRequest)

\* C5: pagination stops at the first empty page: once pages 1..N were
\* non-empty and page N+1 came back empty, fetch_trades has returned after
\* exactly the N+1 requests for pages 1..N+1, with the orders of pages 1..N
\* concatenated in page order.
C5_StopsAtFirstEmptyPage ==
    TradesFetched =>
        /\ pc # "fetch_trades"
        /\ \A k \in 1..(Len(served) - 1) : served[k] # <<>>
        /\ PageRequests = [k \in 1..Len(served) |-> PageRequest(k)]
        /\ pc = "sort" => trades = Concat(served)

\* fetch_trades has just returned the orders of two non-empty pages; and the
\* case of one page of two orders.
C5_Witness ==
    /\ pc = "sort"
    /\ Len(served) = 3
    /\ Len(trades) >= 2

\* C6: pagination is bounded: whatever the endpoint answers (also a
\* non-empty list for every page), fetch_trades never makes more than the
\* configured maximum number of page requests; it fails with
\* PaginationExhaustedError instead.
C6_PaginationBounded == Len(PageRequests) <= PageLimit

\* The trades in another order of delivery.
Reordered(trs, f) == [i \in 1..Len(trs) |-> trs[f[i]]]

\* C7: for fixed candles and a fixed set of trades the series is the same
\* for every order in which the pages deliver the trades.
C7_DeliveryOrderIrrelevant ==
    Succeeded =>
        \A f \in Permutations(1..Len(trades)) :
            BuildSeries(candles, Reordered(trades, f))
                = [ok |-> TRUE, series |-> response.data.series]

\* sum(...) of a field over the trades of one side, as a float sum from 0.
RECURSIVE FSum(_, _, _)
FSum(trs, side, field) ==
    IF trs = <<>> THEN 0
    ELSE LET t == trs[Len(trs)]
             rest == FSum(SubSeq(trs, 1, Len(trs) - 1), side, field)
         IN  IF t.trade_type # side THEN rest
             ELSE IF field = "amount" THEN FAdd(rest, FloatOf(SettlementField(t)))
             ELSE FAdd(rest, FloatOf(t.executed_quantity))

Applied == SubSeq(trades, 1, trade_idx)

\* C8: the balances start at 0 and, at every point of the merge, cash is
\* the sum of the sell amounts minus the sum of the buy amounts and asset
\* the sum of the buy quantities minus the sum of the sell quantities, over
\* the trades applied so far.
C8_BalanceIsSumOfTrades ==
    /\ pc = "sort" => cash = 0 /\ asset = 0
    /\ (pc \in {"merge", "responded"} /\ TradesFetched) =>
          /\ cash = FSub(FSum(Applied, "sell", "amount"), FSum(Applied, "buy", "amount"))
          /\ asset = FSub(FSum(Applied, "buy", "quantity"), FSum(Applied, "sell", "quantity"))

\* C9: candles that reach the merge out of ascending order make the call
\* fail (with InvalidInputError) and return no series: a call that returns a
\* series had its candles in ascending order.
C9_UnsortedCandlesRejected == Succeeded => Ascending(candles)

\* C10: all or nothing: the caller gets either the whole reconstruction (both
\* fetches complete, one point for every candle, the candles as fetched), or
\* an error response with no series and no candles.
C10_AllOrNothing ==
    pc = "responded" =>
        IF response.status = 200
        THEN /\ TradesFetched
             /\ BuildSeries(candles, trades) = [ok |-> TRUE, series |-> response.data.series]
             /\ response.data.candles = candles
        ELSE /\ response.status \in {401, 500}
             /\ DOMAIN response = {"status", "error"}

\* The merge failed after it had built a point from applied trades.
C10_Witness ==
    /\ pc = "responded"
    /\ response.status = 500
    /\ series # <<>>
    /\ trade_idx > 0

\* The closed-orders request that had no answer: the one past the pages served.
TradeFetchFailed == Len(PageRequests) = Len(served) + 1

\* C11: a failure on the request of trade page k, after pages 1..k-1 came
\* back non-empty, fails the trade fetch as a whole: the call answers with the
\* error and none of the accumulated orders, no series is built, no page
\* after k is requested and page k is requested once only.
C11_PageFailureFailsTheFetch ==
    TradeFetchFailed =>
        /\ pc = "responded"
        /\ response.status = 500
        /\ DOMAIN response = {"status", "error"}
        /\ series = <<>>
        /\ PageRequests = [k \in 1..(Len(served) + 1) |-> PageRequest(k)]

\* Page 3 failed after two non-empty pages.
C11_Witness ==
    /\ TradeFetchFailed
    /\ Len(served) = 2
    /\ trades # <<>>
    /\ pc = "responded"

\* The amount a trade moves, as the claim reads it off the trade.
AmountMoved(t) ==
    IF t.inr_amount # Absent THEN FloatOf(t.inr_amount)
    ELSE IF t.quote_amount # Absent THEN FloatOf(t.quote_amount)
    ELSE 0

\* The cash after the trades trs, in their order, from the cash c.
RECURSIVE CashAfter(_, _)
CashAfter(c, trs) ==
    IF trs = <<>> THEN c
    ELSE LET t == trs[1]
             c1 == IF t.trade_type = "buy" THEN FSub(c, AmountMoved(t))
                   ELSE IF t.trade_type = "sell" THEN FAdd(c, AmountMoved(t))
                   ELSE c
         IN  CashAfter(c1, SubSeq(trs, 2, Len(trs)))

\* C16: the settlement amount of a trade is its inr_amount when the trade has
\* one, its quote_amount otherwise; a trade with both moves its inr_amount.
C16_SettlementAmount ==
    (pc \in {"merge", "responded"} /\ TradesFetched) =>
        cash = CashAfter(0, Applied)

\* A trade with both fields and a trade with quote_amount only were applied.
C16_Witness ==
    /\ pc \in {"merge", "responded"}
    /\ TradesFetched
    /\ \E i, j \in 1..trade_idx :
          /\ trades[i].inr_amount # Absent /\ trades[i].quote_amount # Absent
          /\ trades[i].inr_amount # trades[i].quote_amount
          /\ trades[i].trade_type = "buy"
          /\ trades[j].inr_amount = Absent /\ trades[j].quote_amount # Absent
          /\ trades[j].trade_type = "sell"

\* C19: the merge does not start before both fetches are complete: nothing
\* of the merge exists (no sorted list, no point, no cursor, no balance)
\* until the candle request has returned and the pagination has reached its
\* empty page.
C19_MergeAfterBothFetches ==
    (pc \in {"sort", "merge"} \/ series # <<>> \/ trade_idx # 0 \/ cash # 0 \/ asset # 0) =>
        /\ requests # <<>>
        /\ requests[1] = CandleRequest
        /\ TradesFetched

\* A point exists, after three pages of which the last was empty.
C19_Witness ==
    /\ series # <<>>
    /\ Len(served) = 3
    /\ TradesFetched

\* C20: the trade pages are requested one after the other in the order 1, 2,
\* 3, ...: the first request is for page 1, page N+1 is requested only after
\* page N came back non-empty, and no page is requested twice or skipped.
C20_PagesInSequence ==
    /\ PageRequests = [k \in 1..Len(PageRequests) |-> PageRequest(k)]
    /\ Len(PageRequests) \in {Len(served), Len(served) + 1}
    /\ \A k \in 2..Len(PageRequests) : served[k - 1] # <<>>

\* Pages 1, 2 and 3 were requested.
C20_Witness == Len(PageRequests) = 3 /\ TradesFetched

\* C12: a call whose from_time is not before its to_time is rejected (with
\* InvalidInputError) before any candle or trade request is issued.
C12_EmptyWindowRejected ==
    req.from_time >= req.to_time =>
        /\ requests = <<>>
        /\ pc = "responded" => response.status = 500

\* The candles of the end-to-end scenarios, and a series point.
ScenarioCandleList == <<Candle(1000, Num(10)), Candle(2000, Num(12))>>

PointOf(ts, c, a, av, tot) ==
    [timestamp |-> ts, cash |-> c, asset |-> a, asset_value |-> av, total |-> tot]

\* The call came back with a series for the scenario candles and the one
\* trade t.
ScenarioDone(t) ==
    /\ Succeeded
    /\ candles = ScenarioCandleList
    /\ trades = <<t>>

\* C13: with the candles (1000, close 10) and (2000, close 12) and the single
\* buy at 500 of quantity 2 for the amount 20, the series is exactly
\* (1000, cash -20, asset 2, asset_value 20, total 0),
\* (2000, cash -20, asset 2, asset_value 24, total 4).
C13_EarlyBuyScenario ==
    ScenarioDone(ScenarioBuy) =>
        response.data.series = << PointOf(1000, -20, 2, 20, 0),
                                  PointOf(2000, -20, 2, 24, 4) >>

C13_Witness == ScenarioDone(ScenarioBuy)

\* C14: with the same candles and the single sell at 1500 of quantity 1 for
\* the amount 13, the point at 1000 is untouched (cash 0, asset 0, total 0)
\* and the point at 2000 has cash 13, asset -1, asset_value -12, total 1.
C14_MidWindowSellScenario ==
    ScenarioDone(ScenarioSell) =>
        response.data.series = << PointOf(1000, 0, 0, 0, 0),
                                  PointOf(2000, 13, -1, -12, 1) >>

C14_Witness == ScenarioDone(ScenarioSell) /\ Len(series) = 2

\* The symbol ends in the quote currency INR, in any letter case.
HasInrQuote(symbol) ==
    /\ Len(symbol) > 3
    /\ LowerCase(SubSeq(symbol, Len(symbol) - 2, Len(symbol))) = <<"i", "n", "r">>

\* The lower-cased asset, one comma, the lower-cased quote.
PairToken(symbol) ==
    LowerCase(SubSeq(symbol, 1, Len(symbol) - 3)) \o <<",">>
        \o LowerCase(SubSeq(symbol, Len(symbol) - 2, Len(symbol)))

\* C15: for a symbol <asset><quote> whose quote is INR in any letter case the
\* currency filter is the lower-cased asset, one comma and the lower-cased
\* quote: the one comma stands before the trailing quote, also when the asset
\* contains the letters inr; and this token is what is sent as the currency
\* parameter of every closed-orders request.
C15_CurrencyFilter ==
    (HasInrQuote(req.symbol) /\ pc \notin {"check_cookie", "fetch_candles"}) =>
        /\ CurrencyFilter(req.symbol) = PairToken(req.symbol)
        /\ \A i \in 1..Len(PageRequests) : PageRequests[i][3] = PairToken(req.symbol)

\* C18: when the candle endpoint's answer has no result field, or a result
\* that is no sequence, the candle fetch fails (with MalformedResponseError):
\* the call is over with an error, no trade page is requested and no series
\* is built.
C18_MalformedCandleResponse ==
    result_kind \in {"missing", "object", "number"} =>
        /\ PageRequests = <<>>
        /\ series = <<>>
        /\ pc = "responded" => response.status = 500

\* What one invocation alone returns for the data the endpoints hold.
ResultAlone ==
    LET b == BuildSeries(remote.candles, remote.trades)
    IN  IF b.ok
        THEN [status |-> 200, data |-> [series |-> b.series, candles |-> remote.candles]]
        ELSE ErrorResponse("ValueError")

\* C17: no state is carried between invocations: two calls with the same
\* arguments and the same remote data, one after the other or interleaved on
\* the same PortfolioAnalyzer, return the same result, the one a single call
\* returns; a call in its merge has the points a single call has after as
\* many candles.
C17_InvocationsIndependent ==
    /\ \A c \in Calls :
          /\ frames[c].pc = "done" => frames[c].result = ResultAlone
          /\ frames[c].pc = "merge" =>
                frames[c].series =
                    BuildSeries(SubSeq(remote.candles, 1, frames[c].ci - 1),
                                remote.trades).series
    /\ (\A c \in Calls : frames[c].pc = "done") => frames[1].result = frames[2].result

\* Both invocations are in the middle of their merge, each with a trade
\* applied and a candle to go.
C17_Witness ==
    \A c \in Calls :
        /\ frames[c].pc = "merge"
        /\ frames[c].ci = 2
        /\ Len(frames[c].candles) = 2
        /\ frames[c].trade_idx > 0
        /\ balances[c].cash # 0

\* C21: the candles returned with the series are exactly the candles the
\* candle fetch returned, same elements in the same order: nothing after the
\* fetch changes candles, and the response carries them as they are.
C21_CandlesPassedThrough ==
    [][ /\ pc # "fetch_candles" => candles' = candles
        /\ (pc' = "responded" /\ response'.status = 200) =>
               response'.data.candles = candles' ]_vars

\* A call answered with two different candles and a series.
C21_Witness ==
    /\ Succeeded
    /\ Len(response.data.candles) = 2
    /\ response.data.candles[1] # response.data.candles[2]
    /\ Len(response.data.series) = 2

\* C22: every fetched trade executed before the first candle's close_time is
\* in the very first point: the first point's cash and asset are the effect
\* of all trades with trade_ts <= candles[1].close_time, however long before
\* the window they were executed.
C22_EarlyTradesInFirstPoint ==
    series # <<>> =>
        LET b == EffectOf(Zero, ExecutedBy(trades, candles[1].close_time))
        IN  series[1].cash = b.cash /\ series[1].asset = b.asset

\* The first candle closes at 2000 and its point carries both earlier trades.
C22_Witness ==
    /\ series # <<>>
    /\ candles[1].close_time = 2000
    /\ trades = <<ScenarioBuy, ScenarioSell>>
    /\ series[1].cash = -7
    /\ series[1].asset = 1

\* C23: the trade cursor is monotonic: in the merge it never decreases, stays
\* within 0..Len(trades) and advances by exactly one per applied trade: the
\* balance after a step is the balance before it with the trades from the
\* old cursor up to the new one applied, so the trades below the cursor are
\* the applied ones.
C23_CursorMonotonic ==
    [][ pc = "merge" =>
           /\ trade_idx' >= trade_idx
           /\ trade_idx' <= Len(trades)
           /\ [cash |-> cash', asset |-> asset'] =
                  EffectOf([cash |-> cash, asset |-> asset],
                           SubSeq(trades, trade_idx + 1, trade_idx')) ]_vars

\* The cursor moved once in each of two rounds.
C23_Witness ==
    /\ Succeeded
    /\ Len(series) = 2
    /\ trade_idx = 2
    /\ series[1].cash # 0
    /\ series[2].cash # series[1].cash

\* No trade at or above the cursor is due at the candle of the next round.
QuietRound ==
    /\ pc = "merge"
    /\ ci <= Len(candles)
    /\ \A k \in (trade_idx + 1)..Len(trades) :
          trade_ts(trades[k]) > candles[ci].close_time

\* C28: a candle with no pending trade at or before its close_time leaves the
\* running balance untouched: cash, asset and the cursor stay as they are,
\* and the point of the candle has the cash and asset of the point before it
\* (0 and 0 for the first point).
C28_QuietCandleKeepsBalance ==
    [][ QuietRound =>
           /\ cash' = cash /\ asset' = asset /\ trade_idx' = trade_idx
           /\ series' # series =>
                 LET p == series'[Len(series')]
                 IN  IF series = <<>>
                     THEN p.cash = 0 /\ p.asset = 0
                     ELSE /\ p.cash = series[Len(series)].cash
                          /\ p.asset = series[Len(series)].asset ]_vars

\* The second candle was quiet: same balance, another asset_value and total.
C28_Witness ==
    /\ Len(series) = 2
    /\ trade_idx = 1
    /\ series[1].asset # 0
    /\ series[2].cash = series[1].cash
    /\ series[2].asset = series[1].asset
    /\ series[2].total # series[1].total

\* The merge has finished the round of candle i.
RoundDone(i) == pc \in {"merge", "responded"} /\ TradesFetched /\ i < ci

\* C24: the candle boundary is inclusive: a trade whose trade_ts equals a
\* candle's close_time is applied in the round of that candle, and the
\* candle's point carries it: when the round is over the trade is below the
\* cursor, and the point has the balance of the trades below the cursor.
C24_BoundaryInclusive ==
    (pc = "merge" /\ TradesFetched /\ ci > 1) =>
        \A k \in 1..Len(trades) :
            trade_ts(trades[k]) = candles[ci - 1].close_time =>
                /\ k <= trade_idx
                /\ LET b == EffectOf(Zero, Applied)
                   IN  series[ci - 1].cash = b.cash /\ series[ci - 1].asset = b.asset

\* The first candle closes at 1 and the sell executed at 1 is in its point.
C24_Witness ==
    /\ RoundDone(1)
    /\ candles[1].close_time = 1
    /\ trade_idx = 1
    /\ trade_ts(trades[1]) = 1
    /\ trades[1].trade_type = "sell"
    /\ series[1].asset = -2

IsBuyOrSell(t) == t.trade_type \in {"buy", "sell"}

\* C29: a trade whose trade_type is neither buy nor sell is consumed without
\* changing cash or asset: the balance is the effect of the buys and sells
\* below the cursor, the trades after it are applied all the same, and when
\* the merge fails it fails on a field that is no number, not on the type.
C29_UnknownTypeConsumed ==
    (pc \in {"merge", "responded"} /\ TradesFetched) =>
        /\ [cash |-> cash, asset |-> asset] =
               EffectOf(Zero, SelectSeq(Applied, IsBuyOrSell))
        /\ (pc = "responded" /\ response.status = 500 /\ Iterable) =>
               \/ ~IsNum(candles[ci].c)
               \/ /\ trade_idx < Len(trades)
                  /\ ~TradeParses(trades[trade_idx + 1])

\* A transfer below the cursor, with a buy applied after it, and a series.
C29_Witness ==
    /\ Succeeded
    /\ \E k, j \in 1..trade_idx :
          /\ k < j
          /\ trades[k].trade_type = "transfer"
          /\ trades[j].trade_type = "buy"
    /\ asset = 1

\* The request carries no cookie named st.
NoStCookie == \A c \in req.cookies : c[1] # "st"

\* C30: a GET /portfolio-chart without the st cookie is answered 401 and
\* nothing goes out: neither the candle endpoint nor the closed-orders endpoint
\* is contacted, and no candle, trade or series is computed.
C30_NoCookieNoRequest ==
    NoStCookie =>
        /\ requests = <<>>
        /\ candles = <<>> /\ trades = <<>> /\ series = <<>>
        /\ pc \in {"check_cookie", "responded"}
        /\ pc = "responded" =>
               /\ response.status = 401
               /\ DOMAIN response = {"status", "error"}

\* A request with another cookie but no st cookie has been answered.
C30_Witness ==
    /\ NoStCookie
    /\ req.cookies # {}
    /\ pc = "responded"
    /\ response.status = 401

\* The positions in events of the generation attempts, and of those up to i.
Attempts == {i \in 1..Len(events) : events[i].call = "generate_content"}
AttemptsUpTo(i) == {j \in Attempts : j <= i}

\* call_gemini has returned, and what it returned.
CallGeminiReturned ==
    \/ call.fn = "call_gemini" /\ frame.bpc = "done"
    \/ call.fn = "get_data_from_llm" /\ IsStr(frame.returned)

CallGeminiResult == IF call.fn = "call_gemini" THEN frame.answer ELSE frame.returned

\* C25: call_gemini makes at most max_retries (3) generation attempts; a
\* successful attempt is the last thing it does, and its text is what is
\* returned; a wait follows a failed attempt, and only a failed attempt that
\* is not the last one (delay base_delay * 2^attempt), so that every retry
\* comes after a wait and no wait follows the third failure; after the third
\* failure the fixed apology is returned; what is returned is always a text,
\* never an exception (an invalid prompt is answered without any attempt).
C25_BoundedRetries ==
    /\ Cardinality(Attempts) <= max_retries
    /\ \A i \in Attempts : events[i].ok => i = Len(events)
    /\ \A i \in 1..Len(events) :
          events[i].call = "sleep" =>
              /\ i > 1 /\ (i - 1) \in Attempts /\ ~events[i - 1].ok
              /\ Cardinality(AttemptsUpTo(i)) < max_retries
              /\ events[i].delay = base_delay * Pow2(Cardinality(AttemptsUpTo(i)) - 1)
    /\ \A i \in Attempts :
          (~events[i].ok /\ i < Len(events)) => events[i + 1].call = "sleep"
    /\ CallGeminiReturned =>
          /\ IsStr(CallGeminiResult)
          /\ IF \E i \in Attempts : events[i].ok
             THEN \E i \in Attempts :
                     events[i].ok /\ CallGeminiResult = Str(events[i].text)
             ELSE IF Attempts # {}
             THEN /\ Cardinality(Attempts) = max_retries
                  /\ CallGeminiResult = Str(GeminiApology)
             ELSE CallGeminiResult = Str(InvalidPrompt)

\* call_gemini returned the text of its third attempt, after two failures
\* and the two waits of 1 and 2 seconds.
C25_Witness ==
    /\ call.fn = "call_gemini"
    /\ frame.bpc = "done"
    /\ Len(events) = 5
    /\ ~events[1].ok /\ events[2] = Slept(1)
    /\ ~events[3].ok /\ events[4] = Slept(2)
    /\ events[5].ok
    /\ frame.answer = Str(<<Blank, "answer", Blank>>)

\* The bot has called the method name.
HasCalled(name) == \E i \in 1..Len(events) : events[i].call = name

\* get_data_from_llm has classified the query and chosen where to answer from.
Routed ==
    /\ call.fn = "get_data_from_llm"
    /\ HasCalled("classify_query")
    /\ frame.bpc \notin {"get_data_from_llm", "unpack"}

\* C26: the routing follows the classification: with category WALLET_API
\* get_data_from_llm answers from analyze_transactions, with TRADING_API from
\* analyze_trading_history, and with every other category (the FAQ_DB of a
\* failed classification included) from the FAQ database and the LLM.
C26_RoutingFollowsClassification ==
    Routed =>
        LET category == Get(frame.classification, "category")
        IN  IF category = Str(<<"WALLET_API">>)
            THEN HasCalled("analyze_transactions") /\ ~HasCalled("query_db")
            ELSE IF category = Str(<<"TRADING_API">>)
            THEN HasCalled("analyze_trading_history") /\ ~HasCalled("query_db")
            ELSE /\ ~HasCalled("analyze_transactions")
                 /\ ~HasCalled("analyze_trading_history")
                 /\ frame.bpc = "done" => HasCalled("query_db")

\* Total and count of the completed entries whose amount is a number.
RECURSIVE CompletedTotals(_)
CompletedTotals(entries) ==
    IF entries = <<>> THEN NoTransactions
    ELSE LET e == entries[Len(entries)]
             before == CompletedTotals(SubSeq(entries, 1, Len(entries) - 1))
         IN  IF UpperText(e.status) = <<"COMPLETED">> /\ e.amount[1] # "bad"
             THEN [total_amount |-> FAdd(before.total_amount, AmountOf(e)),
                   count |-> before.count + 1]
             ELSE before

\* C27: with transaction type 'all' analyze_transactions has the completed
\* deposits and the completed withdrawals in its totals and counts; with
\* 'deposit' the deposits only, with 'withdrawal' the withdrawals only.
C27_TypeSelectsTransactions ==
    (call.fn = "analyze_transactions" /\ frame.bpc = "done"
        /\ frame.answer[1] = "analysis" /\ IsStr(call.txn_type)) =>
        LET type == LowerText(call.txn_type[2])
            answer == frame.answer
            deposits == CompletedTotals(call.transactions.deposits)
            withdrawals == CompletedTotals(call.transactions.withdrawals)
        IN  /\ type = <<"all">> =>
                   /\ answer[2].deposits = deposits
                   /\ answer[2].withdrawals = withdrawals
            /\ type = <<"deposit">> =>
                   /\ answer[2].deposits = deposits
                   /\ answer[2].withdrawals = NoTransactions
            /\ type = <<"withdrawal">> =>
                   /\ answer[2].deposits = NoTransactions
                   /\ answer[2].withdrawals = withdrawals
====
